---- MODULE Spec2Model ----
(***************************************************************************)
(* The anomaly-scoring engine of backend/services/anomaly_engine.py        *)
(* (process_transactions), as a state machine over one batch.              *)
(*                                                                         *)
(* A DataFrame is a sequence of rows in row order; a row is a record.      *)
(* A column that the batch does not have holds NA in every row and is      *)
(* never read: every read is guarded by membership in available_features,  *)
(* as in the code.  Input batches carry no missing values.                 *)
(*                                                                         *)
(* An ISO-8601 stamp with offset is [local, offset]: seconds of local wall *)
(* clock time and the offset in hours; parsing with utc=True gives the     *)
(* instant local - 3600*offset.                                            *)
(*                                                                         *)
(* Around the engine, backend/services/upload_service.py (ingest_dataframe)*)
(* and backend/routes/upload.py (upload_csv) validate a batch, invoke the  *)
(* engine and insert its output into the transactions collection.          *)
(***************************************************************************)
EXTENDS Integers, Sequences, FiniteSets, TLC

VARIABLES
  input,               \* the caller's DataFrame (argument df)
  simulation_mode,     \* argument simulation_mode
  available_features,  \* argument available_features (the batch's columns)
  df,                  \* the local working copy
  active_risks,        \* list of the column names of the active checks
  s,                   \* loop counter of the session loop
  threshold,           \* df.attrs["threshold"]
  pc,                  \* position in process_transactions ("idle": not in it)
  calls,               \* the ingestion calls made, in order
  outcomes,            \* what each completed call returned or raised
  collection,          \* the documents of the transactions collection
  invoked              \* how many times ingestion has invoked the engine

vars == <<input, simulation_mode, available_features, df, active_risks, s,
          threshold, pc, calls, outcomes, collection, invoked>>

\* pandas' missing value (NaN, pd.NA, NaT, None)
NA == -1

\* ------------------------------------------------------------------ bounds
MaxRows == 11        \* longest patterned batch
MaxSmall == 3        \* longest exhaustively enumerated batch

\* ------------------------------------------------------- program constants
session_size == 5
MaxSessions == 100
SessionSpacing == 10
VelocityCount == 3
DefaultHour == 12

OPTIONAL_FEATURE_COLS ==
  {"timestamp", "amount", "device_hash", "ip_address", "location"}

Min(a, b) == IF a < b THEN a ELSE b

\* ------------------------------------------------------------ pandas helpers

\* lexicographic order of two key tuples of the same length
KeyLess(u, v) ==
  \E k \in 1..Len(u) : u[k] < v[k] /\ \A j \in 1..(k - 1) : u[j] = v[j]

\* mutant: a sort that keeps one row per key: rows with equal keys are
\* replaced by copies of one of them
SortValuesOneRowPerKey(d, by) ==
  LET Below(keys) ==
        [i \in 1..Len(keys) |->
           Cardinality({j \in 1..Len(keys) : KeyLess(keys[j], keys[i])})]
      Ties(keys) ==
        [i \in 1..Len(keys) |->
           Cardinality({j \in 1..Len(keys) : keys[j] = keys[i]})]
      Placed(dd, below, ties) ==
        [k \in 1..Len(dd) |->
           dd[CHOOSE i \in 1..Len(dd) :
                below[i] <= k - 1 /\ k - 1 < below[i] + ties[i]]]
  IN  CHOOSE r \in UNION {{Placed(dd, below, ties) :
                             below \in {Below(keys)}, ties \in {Ties(keys)}} :
                           dd \in {d}, keys \in {by}} : TRUE

\* DataFrame.sort_values on several columns: a stable sort (lexsort) of the
\* rows of d, by[i] being the tuple of sort keys of row i.  (The frame, the
\* keys and the ranks are bound by set membership so that they are computed
\* once.)
SortValues(d, by) ==
  LET Ranked(keys) ==
        [i \in 1..Len(keys) |->
           Cardinality({j \in 1..Len(keys) :
              \/ KeyLess(keys[j], keys[i])
              \/ (keys[j] = keys[i] /\ j < i)})]
      Placed(dd, rank) ==
        [k \in 1..Len(dd) |-> dd[CHOOSE i \in 1..Len(dd) : rank[i] = k - 1]]
  IN  CHOOSE r \in UNION {{Placed(dd, rank) : rank \in {Ranked(keys)}} :
                           dd \in {d}, keys \in {by}} : TRUE

\* a stamp that is not ISO-8601 text
Malformed == [local |-> NA, offset |-> NA]

\* pd.to_datetime raises on a stamp it cannot parse
Parsable(ts) == ts # Malformed

\* the rows of d on which parsing the timestamp column raises
Unparsable(d, feats) ==
  IF "timestamp" \in feats
  THEN {i \in 1..Len(d) : ~Parsable(d[i].timestamp)}
  ELSE {}

\* pd.to_datetime(..., format="ISO8601", utc=True) of one stamp
ToDatetimeUTC(ts) == ts.local - 3600 * ts.offset

\* Series.dt.hour
HourOf(t) == (t \div 3600) % 24

\* the rows of d in the same sender_account group as row i
GroupOf(d, i) == {j \in 1..Len(d) : d[j].sender_account = d[i].sender_account}

\* Series.sum over the rows idx of the values f[j]
RECURSIVE SumFn(_, _)
SumFn(f, idx) ==
  IF idx = {} THEN 0
  ELSE LET j == CHOOSE j \in idx : TRUE
       IN  f[j] + SumFn(f, idx \ {j})

\* ------------------------------------------------------------ the checks

\* A z-score is kept exactly: [num, ssq, nm1] stands for the real number
\* num * sqrt(nm1) / sqrt(ssq), which is (x - mean) / std with the sample
\* standard deviation (ddof = 1) of a group of n = nm1 + 1 amounts, both
\* scaled by n:  num = n*x - sum,  ssq = sum of (n*x_j - sum)^2.
ZeroScore == [num |-> 0, ssq |-> 1, nm1 |-> 1]

\* x.std() > 0: NaN for a single row (NaN > 0 is False), 0 for equal amounts
StdPositive(d, G) ==
  /\ Cardinality(G) >= 2
  /\ \E j \in G, k \in G : d[j].amount # d[k].amount

\* mutant: the population standard deviation (ddof = 0) in the z-score
AmountZScorePopulation(d, i) ==
  LET G   == GroupOf(d, i)
      n   == Cardinality(G)
      sum == SumFn([j \in G |-> d[j].amount], G)
      dev == [j \in G |-> n * d[j].amount - sum]
  IN  IF StdPositive(d, G)
      THEN [num |-> dev[i],
            ssq |-> SumFn([j \in G |-> dev[j] * dev[j]], G),
            nm1 |-> n]
      ELSE ZeroScore

\* lambda x: (x - x.mean()) / x.std() if x.std() > 0 else 0, at row i
AmountZScore(d, i) ==
  LET G   == GroupOf(d, i)
      n   == Cardinality(G)
      sum == SumFn([j \in G |-> d[j].amount], G)
      dev == [j \in G |-> n * d[j].amount - sum]
  IN  IF StdPositive(d, G)
      THEN [num |-> dev[i],
            ssq |-> SumFn([j \in G |-> dev[j] * dev[j]], G),
            nm1 |-> n - 1]
      ELSE ZeroScore

\* mutant: the check fires only strictly above one standard deviation
ZScoreAboveOne(z) == z.num > 0 /\ z.num * z.num * z.nm1 > z.ssq

\* df["amount_zscore"] >= 1
ZScoreGeOne(z) == z.num > 0 /\ z.num * z.num * z.nm1 >= z.ssq

\* mutant: duplicates looked for in the whole batch, not per account
NotDuplicatedInBatch(d, i, col) ==
  ~\E j \in 1..Len(d) : j < i /\ d[j][col] = d[i][col]

\* mutant: duplicated(keep=False), every value that repeats counts as seen
NotDuplicatedKeepNone(d, i, col) ==
  ~\E j \in GroupOf(d, i) : j # i /\ d[j][col] = d[i][col]

\* ~x.duplicated() within the sender_account group, on column col
NotDuplicated(d, i, col) ==
  ~\E j \in GroupOf(d, i) : j < i /\ d[j][col] = d[i][col]

\* groupby("sender_account")["location"].shift(1)
PrevLocation(d, i) ==
  LET before == {j \in GroupOf(d, i) : j < i}
  IN  IF before = {} THEN NA
      ELSE d[CHOOSE j \in before : \A k \in before : k <= j].location

\* df["location"] != df["prev_location"]: a comparison with NaN is True
LocationChanged(loc, prev) == IF prev = NA THEN TRUE ELSE loc # prev

\* groupby(["sender_account", "hour"]).size() for one account: the hours of
\* the account in ascending order (groupby sorts its keys), with their counts
HourCounts(d, acct) ==
  LET rows == {j \in 1..Len(d) : d[j].sender_account = acct}
      Asc(hours) ==
        [k \in 1..Cardinality(hours) |->
           CHOOSE h \in hours : Cardinality({g \in hours : g < h}) = k - 1]
      Counted(asc) ==
        [k \in 1..Len(asc) |->
           [hour |-> asc[k],
            count |-> Cardinality({j \in rows : d[j].hour = asc[k]})]]
  IN  CHOOSE r \in UNION {{Counted(asc) : asc \in {Asc(hours)}} :
                           hours \in {{d[j].hour : j \in rows}}} : TRUE

\* .sort_values(["sender_account", "count"], ascending=[True, False]): within
\* one account, descending count
CountDescKeys(counts) == [k \in 1..Len(counts) |-> <<-counts[k].count>>]

\* mutant: the counts sorted in ascending order
DominantHourAscending(d, acct) ==
  CHOOSE h \in {SortValues(counts, [k \in 1..Len(counts) |-> <<counts[k].count>>])[1].hour :
                  counts \in {HourCounts(d, acct)}} : TRUE

\* ....groupby("sender_account").head(1).set_index("sender_account")["hour"]
DominantHour(d, acct) ==
  CHOOSE h \in {SortValues(counts, CountDescKeys(counts))[1].hour :
                  counts \in {HourCounts(d, acct)}} : TRUE

\* ------------------------------------------------------------ input batches

MIN_REQUIRED_COLS == {"transaction_id", "sender_account"}

Accounts == {1, 2}

\* 09:00:00+00:00, 10:00:00+01:00 (the same instant), 09:00:30+00:00, 14:00:00+00:00
StampSeq ==
  << [local |-> 32400, offset |-> 0], [local |-> 36000, offset |-> 1],
     [local |-> 32430, offset |-> 0], [local |-> 50400, offset |-> 0] >>

Stamps == {StampSeq[1], StampSeq[2], StampSeq[4]}
PairStamps == {StampSeq[1], StampSeq[4]}
Amounts == {1, 2, 3}
Devices == {1, 2}
Networks == {1, 2}
Locations == {1, 2}

Row(i, acct, ts, amt, dev, ip, loc) ==
  [transaction_id |-> i, sender_account |-> acct, timestamp |-> ts,
   amount |-> amt, device_hash |-> dev, ip_address |-> ip, location |-> loc]

Col(F, name, values) == IF name \in F THEN values ELSE {NA}

\* every batch of 1..MaxSmall rows over the small value sets, with optional
\* columns F
SmallBatches(F) ==
  LET rows == [sender_account : Accounts,
               timestamp : Col(F, "timestamp",
                               IF F = {"timestamp"} THEN Stamps ELSE PairStamps),
               amount : Col(F, "amount", Amounts),
               device_hash : Col(F, "device_hash", Devices),
               ip_address : Col(F, "ip_address", Networks),
               location : Col(F, "location", Locations)]
  IN  UNION {{[i \in 1..n |->
                 Row(i, b[i].sender_account, b[i].timestamp, b[i].amount,
                     b[i].device_hash, b[i].ip_address, b[i].location)] :
              b \in [1..n -> rows]} : n \in 1..MaxSmall}

\* the optional-column sets of the exhaustively enumerated batches: no
\* feature, one feature, or an order-dependent feature with temporal stamps
SmallFeatureSets ==
  {F \in SUBSET OPTIONAL_FEATURE_COLS :
     \/ Cardinality(F) <= 1
     \/ /\ Cardinality(F) = 2
        /\ "timestamp" \in F
        /\ "amount" \notin F}

\* longer batches, every column following a pattern of the row number i
AccountPatterns == {"one", "alt", "blocks"}
StampPatterns == {"inc", "dec", "cyc"}
AmountPatterns == {"const", "spike", "ramp"}
ValuePatterns == {"same", "alt"}

PatAccount(p, i) ==
  CASE p = "one" -> 1
    [] p = "alt" -> ((i - 1) % 2) + 1
    [] p = "blocks" -> (((i - 1) \div 3) % 2) + 1

PatStamp(p, i) ==
  CASE p = "inc" -> [local |-> 32400 + 60 * i, offset |-> 0]
    [] p = "dec" -> [local |-> 50400 - 1800 * i, offset |-> 0]
    [] p = "cyc" -> StampSeq[((i - 1) % 4) + 1]

PatAmount(p, i) ==
  CASE p = "const" -> 50
    [] p = "spike" -> IF i % 3 = 0 THEN 100 ELSE 10
    [] p = "ramp" -> i

PatValue(p, i) ==
  CASE p = "same" -> 1
    [] p = "alt" -> (((i - 1) \div 2) % 2) + 1

Pat(F, name, patterns) == IF name \in F THEN patterns ELSE {"none"}
PatOr(p, v) == IF p = "none" THEN NA ELSE v

PatternBatches(F) ==
  {[i \in 1..n |->
      Row(i, PatAccount(pa, i), PatOr(pt, PatStamp(pt, i)),
          PatOr(pm, PatAmount(pm, i)), PatOr(pd, PatValue(pd, i)),
          PatOr(pi, PatValue(pi, i + 1)), PatOr(pl, PatValue(pl, i + 2)))] :
     n \in 1..MaxRows,
     pa \in AccountPatterns,
     pt \in Pat(F, "timestamp", StampPatterns),
     pm \in Pat(F, "amount", AmountPatterns),
     pd \in Pat(F, "device_hash", ValuePatterns),
     pi \in Pat(F, "ip_address", ValuePatterns),
     pl \in Pat(F, "location", ValuePatterns)}

Batches(F) ==
  PatternBatches(F) \cup (IF F \in SmallFeatureSets THEN SmallBatches(F) ELSE {})

\* ------------------------------------------------------------ the engine

\* mutant: the batch sorted by sender account only
AccountKeysOnly(d) ==
  [i \in 1..Len(d) |-> <<d[i].sender_account>>]

\* sort_values(["sender_account", "timestamp"])
AccountTimeKeys(d) ==
  [i \in 1..Len(d) |-> <<d[i].sender_account, d[i].timestamp>>]

\* Timestamp handling: parse, sort by account and time, take the hour
Preprocess(d, feats) ==
  IF "timestamp" \in feats
  THEN LET parsed == [i \in 1..Len(d) |->
                        [d[i] EXCEPT !.timestamp = ToDatetimeUTC(@)]]
       IN  CHOOSE r \in {[i \in 1..Len(sorted) |->
                            sorted[i] @@ [hour |-> HourOf(sorted[i].timestamp)]] :
                         sorted \in {SortValues(parsed, AccountTimeKeys(parsed))}} : TRUE
  ELSE [i \in 1..Len(d) |-> d[i] @@ [hour |-> DefaultHour]]

\* the (column_name, description) pairs of the checks
Description ==
  [risk_amount |-> "Unusual transaction amount",
   risk_new_device |-> "New device detected",
   risk_new_ip |-> "New IP address detected",
   risk_location_change |-> "Transaction location changed",
   risk_off_hour |-> "Transaction at unusual time",
   risk_velocity_sim |-> "Multiple transactions in short time"]

When(cond, name) == IF cond THEN <<name>> ELSE << >>

\* mutant: the off-hour check registered whether or not stamps are present
BaseRisksAlwaysOffHour(feats) ==
  When("amount" \in feats, "risk_amount")
    \o When("device_hash" \in feats, "risk_new_device")
    \o When("ip_address" \in feats, "risk_new_ip")
    \o When("location" \in feats, "risk_location_change")
    \o <<"risk_off_hour">>

\* active_risks after the five per-account checks, in order of the appends
BaseRisks(feats) ==
  When("amount" \in feats, "risk_amount")
    \o When("device_hash" \in feats, "risk_new_device")
    \o When("ip_address" \in feats, "risk_new_ip")
    \o When("location" \in feats, "risk_location_change")
    \o When("timestamp" \in feats, "risk_off_hour")

\* the dominant_hour series: sender_account -> dominant hour (the default
\* hour without temporal stamps)
DominantHours(d, feats) ==
  [acct \in {d[j].sender_account : j \in 1..Len(d)} |->
     IF "timestamp" \in feats THEN DominantHour(d, acct) ELSE DefaultHour]

\* the columns the five checks add to row i of the preprocessed frame d,
\* given the dominant_hour series
CheckColumns(d, feats, dominant_hour, i) ==
  LET z     == IF "amount" \in feats THEN AmountZScore(d, i) ELSE ZeroScore
      newd  == IF "device_hash" \in feats
               THEN NotDuplicated(d, i, "device_hash") ELSE FALSE
      newip == IF "ip_address" \in feats
               THEN NotDuplicated(d, i, "ip_address") ELSE FALSE
      prev  == IF "location" \in feats THEN PrevLocation(d, i) ELSE NA
      moved == IF "location" \in feats
               THEN LocationChanged(d[i].location, prev) ELSE FALSE
      dom   == dominant_hour[d[i].sender_account]
      off   == IF "timestamp" \in feats THEN d[i].hour # dom ELSE FALSE
  IN  [amount_zscore |-> z,
       risk_amount |-> IF "amount" \in feats THEN ZScoreGeOne(z) ELSE FALSE,
       is_new_device |-> newd, risk_new_device |-> newd,
       is_new_ip |-> newip, risk_new_ip |-> newip,
       prev_location |-> prev, location_changed |-> moved,
       risk_location_change |-> moved,
       dominant_hour |-> dom, off_hour_txn |-> off, risk_off_hour |-> off]

\* df[cols].sum(axis=1) of one row: how many of the columns are True
RowSum(row, cols) == Cardinality({k \in 1..Len(cols) : row[cols[k]]})

\* base_risk_score and the initial values of the simulation columns
AggregateColumns(row, feats, risks) ==
  [base_risk_score |-> IF risks # << >> THEN RowSum(row, risks) ELSE 0,
   risk_velocity_sim |-> FALSE,
   txn_count_sim |-> 1,
   session_id |-> NA,
   sim_timestamp |-> IF "timestamp" \in feats THEN row.timestamp ELSE NA]

\* process_transactions up to the start of the velocity simulation
Baseline ==
  /\ pc = "start"
  /\ Unparsable(df, available_features) = {}
  /\ \E d0 \in {Preprocess(df, available_features)} :
     \E dominant_hour \in {DominantHours(d0, available_features)} :
     \E d1 \in {[i \in 1..Len(d0) |->
                   d0[i] @@ CheckColumns(d0, available_features, dominant_hour, i)]} :
       df' = [i \in 1..Len(d1) |->
                d1[i] @@ AggregateColumns(d1[i], available_features,
                                          BaseRisks(available_features))]
  /\ active_risks' = BaseRisks(available_features)
  /\ pc' = IF simulation_mode /\ "timestamp" \in available_features
           THEN "simulate" ELSE "final"
  /\ UNCHANGED <<input, simulation_mode, available_features, s, threshold>>
  /\ UNCHANGED <<calls, outcomes, collection, invoked>>

\* mutant: a last, partial slice also becomes a session
NumSessionsRoundedUp(d) ==
  Min(MaxSessions, (Len(d) + session_size - 1) \div session_size)

\* num_sessions = min(100, len(df) // session_size)
NumSessions(d) == Min(MaxSessions, Len(d) \div session_size)

\* df.index[s*session_size:(s+1)*session_size], as 1-based row numbers
SessionSlice(d, k) ==
  {i \in 1..Len(d) : k * session_size < i /\ i <= (k + 1) * session_size}

\* mutant: the spacing counted from one, the first record moved as well
SimTimestampFromOne(base_time, j) == base_time + SessionSpacing * (j + 1)

\* base_time + timedelta(seconds=10 * j), for the j-th row of a slice (from 0)
SimTimestamp(base_time, j) == base_time + SessionSpacing * j

\* one iteration of the loop "for s in range(num_sessions)"
SimulateSession ==
  /\ pc = "simulate"
  /\ s < NumSessions(df)
  /\ \E idx \in {SessionSlice(df, s)} :
     \E first \in {s * session_size + 1} :
     \E base_time \in {df[first].timestamp} :
       df' = [i \in 1..Len(df) |->
                IF i \in idx
                THEN [df[i] EXCEPT
                        !.session_id = s,
                        !.sim_timestamp = SimTimestamp(base_time, i - first)]
                ELSE df[i]]
  /\ s' = s + 1
  /\ UNCHANGED <<input, simulation_mode, available_features, active_risks,
                 threshold, pc>>
  /\ UNCHANGED <<calls, outcomes, collection, invoked>>

\* the decimal digits of k: the part of f"SIM_SESSION_{k}" that differs
RECURSIVE Decimal(_)
Decimal(k) == IF k < 10 THEN <<k>> ELSE Append(Decimal(k \div 10), k % 10)

\* string comparison
StrLess(u, v) ==
  LET m == Min(Len(u), Len(v))
      diff == {k \in 1..m : u[k] # v[k]}
  IN  IF diff = {} THEN Len(u) < Len(v)
      ELSE LET k == CHOOSE k \in diff : \A j \in diff : k <= j
           IN  u[k] < v[k]

\* the sort codes of the session_id column: the place of each name among the
\* sorted distinct names, missing values after all of them (na_position="last")
SessionCodes(d) ==
  LET Codes(names) ==
        [k \in names \cup {NA} |->
           IF k = NA THEN Cardinality(names)
           ELSE Cardinality({m \in names : StrLess(Decimal(m), Decimal(k))})]
  IN  CHOOSE c \in {Codes(names) :
                      names \in {{d[i].session_id : i \in 1..Len(d)} \ {NA}}} : TRUE

\* sort_values(["session_id", "sim_timestamp"], na_position="last")
SessionTimeKeys(d) ==
  CHOOSE by \in {[i \in 1..Len(d) |-> <<codes[d[i].session_id], d[i].sim_timestamp>>] :
                   codes \in {SessionCodes(d)}} : TRUE

\* mutant: the rows without a session counted as one more group
TxnCountSimCountsMissing(d, i) ==
  Cardinality({j \in 1..(i - 1) : d[j].session_id = d[i].session_id}) + 1

\* groupby("session_id", dropna=True).cumcount() + 1 at row i: NaN for a row
\* whose session_id is missing (pandas 2.x, which format="ISO8601" requires)
TxnCountSim(d, i) ==
  IF d[i].session_id = NA THEN NA
  ELSE Cardinality({j \in 1..(i - 1) : d[j].session_id = d[i].session_id}) + 1

\* df["txn_count_sim"] >= 3: False for NaN
VelocityRisk(count) == count # NA /\ count >= VelocityCount

\* mutant: the velocity check registered only when it fired on some row of d
RegisterVelocityIfFired(risks, d) ==
  IF \E i \in 1..Len(d) : d[i].risk_velocity_sim
  THEN Append(risks, "risk_velocity_sim")
  ELSE risks

\* active_risks.append(("risk_velocity_sim", ...)): whatever the frame d holds
RegisterVelocity(risks, d) == Append(risks, "risk_velocity_sim")

\* after the loop: re-sort, count within sessions, register the velocity check
Velocity ==
  /\ pc = "simulate"
  /\ s >= NumSessions(df)
  /\ \E sorted \in {SortValues(df, SessionTimeKeys(df))} :
     \E counted \in {[i \in 1..Len(sorted) |->
                        [sorted[i] EXCEPT
                           !.txn_count_sim = TxnCountSim(sorted, i),
                           !.risk_velocity_sim =
                              VelocityRisk(TxnCountSim(sorted, i))]]} :
       /\ df' = counted
       /\ active_risks' = RegisterVelocity(active_risks, counted)
  /\ pc' = "final"
  /\ UNCHANGED <<input, simulation_mode, available_features, s, threshold>>
  /\ UNCHANGED <<calls, outcomes, collection, invoked>>

\* mutant: no active check, no fallback: the threshold is the count itself
ThresholdOfNoneIsZero(total_possible_risks) ==
  IF total_possible_risks <= 2 THEN total_possible_risks
  ELSE IF total_possible_risks <= 4 THEN 3
  ELSE total_possible_risks - 1

\* mutant: four active checks require all four
ThresholdAllOfFour(total_possible_risks) ==
  IF total_possible_risks <= 1 THEN 1
  ELSE IF total_possible_risks <= 4 THEN total_possible_risks
  ELSE total_possible_risks - 1

\* the dynamic anomaly threshold for total_possible_risks active checks
Threshold(total_possible_risks) ==
  IF total_possible_risks = 0 THEN 1
  ELSE IF total_possible_risks = 1 THEN 1
  ELSE IF total_possible_risks = 2 THEN 2
  ELSE IF total_possible_risks = 3 THEN 3
  ELSE IF total_possible_risks = 4 THEN 3
  ELSE IF total_possible_risks = 5 THEN 4
  ELSE 5

\* mutant: the velocity column left out of the final score
FinalRiskScoreNoVelocity(row) == row.base_risk_score

\* df["base_risk_score"] + df["risk_velocity_sim"].astype(int)
FinalRiskScore(row) ==
  row.base_risk_score + (IF row.risk_velocity_sim THEN 1 ELSE 0)

\* mutant: every active check listed, whatever its column says
BuildReasonsAllActive(row, risks) ==
  [k \in 1..Len(risks) |-> Description[risks[k]]]

\* build_reasons(row): the descriptions of the active checks that are True
RECURSIVE BuildReasons(_, _)
BuildReasons(row, risks) ==
  IF risks = << >> THEN << >>
  ELSE (IF row[Head(risks)] THEN <<Description[Head(risks)]>> ELSE << >>)
         \o BuildReasons(row, Tail(risks))

\* mutant: a strict comparison with the threshold
IsAnomalousStrict(score, t) == score > t

\* df["final_risk_score"] >= threshold
IsAnomalous(score, t) == score >= t

\* final score, explanation, threshold and verdict
Finalize ==
  /\ pc = "final"
  /\ \E t \in {Threshold(Len(active_risks))} :
       /\ threshold' = t
       /\ df' = [i \in 1..Len(df) |->
                   df[i] @@
                   [final_risk_score |-> FinalRiskScore(df[i]),
                    final_reasons |-> BuildReasons(df[i], active_risks),
                    final_is_anomalous |-> IsAnomalous(FinalRiskScore(df[i]), t)]]
  /\ pc' = "done"
  /\ UNCHANGED <<input, simulation_mode, available_features, active_risks, s>>
  /\ UNCHANGED <<calls, outcomes, collection, invoked>>

Init ==
  /\ \E F \in SUBSET OPTIONAL_FEATURE_COLS :
       /\ available_features = MIN_REQUIRED_COLS \cup F
       /\ input \in Batches(F)
  /\ simulation_mode \in BOOLEAN
  /\ df = input
  /\ active_risks = << >>
  /\ s = 0
  /\ threshold = NA
  /\ pc = "start"
  /\ calls = << >>
  /\ outcomes = << >>
  /\ collection = << >>
  /\ invoked = 0

Next == Baseline \/ SimulateSession \/ Velocity \/ Finalize

Spec == Init /\ [][Next]_vars

\* Batches around the cap of MaxSessions sessions, with temporal stamps only
\* and simulation on, beside the patterned batches of up to MaxRows rows.
CapRows ==
  {session_size * MaxSessions + k : k \in {-1, 0, 4, 5, 7}}

SessionBatches ==
  {[i \in 1..n |-> Row(i, PatAccount(pa, i), PatStamp(pt, i), NA, NA, NA, NA)] :
     n \in (1..MaxRows) \cup CapRows,
     pa \in AccountPatterns,
     pt \in {"inc", "cyc"}}

InitSessions ==
  /\ available_features = MIN_REQUIRED_COLS \cup {"timestamp"}
  /\ input \in SessionBatches
  /\ simulation_mode = TRUE
  /\ df = input
  /\ active_risks = << >>
  /\ s = 0
  /\ threshold = NA
  /\ pc = "start"
  /\ calls = << >>
  /\ outcomes = << >>
  /\ collection = << >>
  /\ invoked = 0

SpecSessions == InitSessions /\ [][Next]_vars

\* ------------------------------------------------------------ ingestion

\* a call is waiting or in progress, and which
Pending == Len(outcomes) < Len(calls)
Request == calls[Len(outcomes) + 1]

\* df.empty
Empty(rows) == rows = << >>

\* mutant: only the identifier column is required
MissingMinimalIdOnly(columns) == {"transaction_id"} \ columns

\* missing_minimal = MIN_REQUIRED_COLS - set(df.columns)
MissingMinimal(columns) == MIN_REQUIRED_COLS \ columns

\* what a refused batch raises: ValueError(detail) from ingest_dataframe,
\* HTTPException(status_code=400, detail=detail) from upload_csv
Rejection(via, detail) ==
  IF via = "upload_csv"
  THEN [raised |-> "HTTPException", status_code |-> 400, detail |-> detail]
  ELSE [raised |-> "ValueError", status_code |-> NA, detail |-> detail]

\* an exception of the engine: it leaves ingest_dataframe as it is, upload_csv
\* turns it into HTTPException(status_code=500)
EngineFailure(via) ==
  IF via = "upload_csv"
  THEN [raised |-> "HTTPException", status_code |-> 500, detail |-> "engine"]
  ELSE [raised |-> "engine exception", status_code |-> NA, detail |-> "engine"]

\* the metadata a successful call returns
Metadata(records, sim, risks, t) ==
  [raised |-> "nothing",
   rows_processed |-> Len(records),
   simulation_mode |-> sim,
   active_risks |-> [k \in 1..Len(risks) |-> Description[risks[k]]],
   threshold |-> t]

\* collection.insert_many(records)
InsertMany(coll, records) == coll \o records

\* the batch is empty or lacks a required column: the call raises at once
Reject ==
  /\ pc = "idle"
  /\ Pending
  /\ Empty(Request.rows) \/ MissingMinimal(Request.columns) # {}
  /\ outcomes' = Append(outcomes,
                        Rejection(Request.via,
                                  IF Empty(Request.rows)
                                  THEN "CSV contains no rows"
                                  ELSE "Missing required columns"))
  /\ UNCHANGED <<input, simulation_mode, available_features, df, active_risks,
                 s, threshold, pc, calls, collection, invoked>>

\* the batch passed validation: process_transactions(df, simulation_mode,
\* available_features = set(df.columns)) is entered
Invoke ==
  /\ pc = "idle"
  /\ Pending
  /\ ~Empty(Request.rows)
  /\ MissingMinimal(Request.columns) = {}
  /\ input' = Request.rows
  /\ df' = Request.rows
  /\ simulation_mode' = Request.simulation_mode
  /\ available_features' = Request.columns
  /\ active_risks' = << >>
  /\ s' = 0
  /\ threshold' = NA
  /\ pc' = "start"
  /\ invoked' = invoked + 1
  /\ UNCHANGED <<calls, outcomes, collection>>

\* pd.to_datetime raises inside the engine: the exception ends the call
ParseError ==
  /\ pc = "start"
  /\ Pending
  /\ Unparsable(df, available_features) # {}
  /\ outcomes' = Append(outcomes, EngineFailure(Request.via))
  /\ pc' = "idle"
  /\ UNCHANGED <<input, simulation_mode, available_features, df, active_risks,
                 s, threshold, calls, collection, invoked>>

\* the engine returned: its records are inserted and the metadata returned
Persist ==
  /\ pc = "done"
  /\ Pending
  /\ collection' = InsertMany(collection, df)
  /\ outcomes' = Append(outcomes,
                        Metadata(df, simulation_mode, active_risks, threshold))
  /\ pc' = "idle"
  /\ UNCHANGED <<input, simulation_mode, available_features, df, active_risks,
                 s, threshold, calls, invoked>>

NextIngest ==
  \/ Reject \/ Invoke \/ ParseError \/ Persist
  \/ Baseline \/ SimulateSession \/ Velocity \/ Finalize

\* the entry points
Entries == {"ingest_dataframe", "upload_csv"}

\* the batches of the arbitrary calls.  Refused or failing: no rows; no
\* transaction_id column; no sender_account column; a stamp that cannot be
\* parsed.  Passing: two records with amounts only; six records with stamps
\* and devices, long enough for a session.
BatchKinds ==
  {"empty", "no_transaction_id", "no_sender_account", "bad_stamp", "amounts",
   "sessions"}

BatchOf(kind) ==
  CASE kind = "empty" ->
         [rows |-> << >>, columns |-> MIN_REQUIRED_COLS \cup {"amount"}]
    [] kind = "no_transaction_id" ->
         [rows |-> << Row(NA, 1, NA, 1, NA, NA, NA) >>,
          columns |-> {"sender_account", "amount"}]
    [] kind = "no_sender_account" ->
         [rows |-> << Row(1, NA, NA, 1, NA, NA, NA),
                      Row(2, NA, NA, 2, NA, NA, NA) >>,
          columns |-> {"transaction_id", "amount"}]
    [] kind = "bad_stamp" ->
         [rows |-> << Row(1, 1, StampSeq[1], NA, NA, NA, NA),
                      Row(2, 1, Malformed, NA, NA, NA, NA) >>,
          columns |-> MIN_REQUIRED_COLS \cup {"timestamp"}]
    [] kind = "amounts" ->
         [rows |-> << Row(1, 1, NA, 1, NA, NA, NA),
                      Row(2, 2, NA, 3, NA, NA, NA) >>,
          columns |-> MIN_REQUIRED_COLS \cup {"amount"}]
    [] kind = "sessions" ->
         [rows |-> [i \in 1..6 |->
                      Row(i, PatAccount("blocks", i), PatStamp("cyc", i), NA,
                          PatValue("alt", i), NA, NA)],
          columns |-> MIN_REQUIRED_COLS \cup {"timestamp", "device_hash"}]

\* a call: its entry point, the kind of its batch, its simulation flag (a
\* batch that does not pass is submitted with the default, True)
RequestKeys ==
  {key \in Entries \X BatchKinds \X BOOLEAN :
     key[2] \in {"amounts", "sessions"} \/ key[3]}

RequestOf(key) ==
  [via |-> key[1], rows |-> BatchOf(key[2]).rows,
   columns |-> BatchOf(key[2]).columns, simulation_mode |-> key[3]]

MaxCalls == 2        \* longest sequence of arbitrary ingestion calls

\* the optional columns of the batches that are submitted twice
OrderFeatureSets ==
  { {"timestamp"}, {"timestamp", "device_hash"},
    {"timestamp", "amount", "location"}, OPTIONAL_FEATURE_COLS }

\* the rows of a batch in another order: last to first, or the rows at odd
\* places followed by the rows at even places
Reversed(rows) == [i \in 1..Len(rows) |-> rows[Len(rows) + 1 - i]]
OddsFirst(rows) ==
  LET h == (Len(rows) + 1) \div 2
  IN  [i \in 1..Len(rows) |-> IF i <= h THEN rows[2 * i - 1] ELSE rows[2 * (i - h)]]

\* ingest_dataframe called with a batch of columns F and the required ones
BatchCall(rows, F, sim) ==
  [via |-> "ingest_dataframe", rows |-> rows,
   columns |-> MIN_REQUIRED_COLS \cup F, simulation_mode |-> sim]

\* no call made yet, the engine not entered
Idle ==
  /\ outcomes = << >>
  /\ collection = << >>
  /\ invoked = 0
  /\ input = << >>
  /\ df = << >>
  /\ simulation_mode = FALSE
  /\ available_features = {}
  /\ active_risks = << >>
  /\ s = 0
  /\ threshold = NA
  /\ pc = "idle"

\* the calls to come: up to MaxCalls arbitrary calls, or a batch submitted
\* twice, the second time with its rows in another order
InitIngest ==
  /\ \/ \E n \in 1..MaxCalls : \E keys \in [1..n -> RequestKeys] :
          calls = [i \in 1..n |-> RequestOf(keys[i])]
     \/ \E F \in OrderFeatureSets :
        \E b \in {x \in PatternBatches(F) : Len(x) >= 2} :
        \E again \in {Reversed(b), OddsFirst(b)} :
        \E sim \in BOOLEAN :
          calls = << BatchCall(b, F, sim), BatchCall(again, F, sim) >>
  /\ Idle

SpecIngest == InitIngest /\ [][NextIngest]_vars

\* ------------------------------------------------------------ properties

Done == pc = "done"
Rows == 1..Len(df)
HasFeature(f) == f \in available_features
ActiveColumns == {active_risks[k] : k \in 1..Len(active_risks)}
SimulationActive == simulation_mode /\ HasFeature("timestamp")

\* the feature each per-account check requires
RequiredFeature ==
  [risk_amount |-> "amount", risk_new_device |-> "device_hash",
   risk_new_ip |-> "ip_address", risk_location_change |-> "location",
   risk_off_hour |-> "timestamp"]

AllChecks == DOMAIN RequiredFeature \cup {"risk_velocity_sim"}

\* C1: in the output, every record's final_risk_score is the number of active
\* checks whose boolean column is true for it, the velocity check included.
C1_ScoreCountsActiveChecks ==
  Done => \A i \in Rows :
            df[i].final_risk_score =
              Cardinality({c \in ActiveColumns : df[i][c]})

\* C1 witness: a record on which the velocity check and four other checks fire
C1_Witness ==
  /\ Done
  /\ \E i \in Rows : /\ df[i].risk_velocity_sim
                     /\ df[i].risk_amount
                     /\ df[i].final_risk_score >= 5

\* C2: a record is anomalous iff its score reaches the invocation's threshold.
C2_AnomalousIffAtThreshold ==
  Done => \A i \in Rows :
            df[i].final_is_anomalous <=> (df[i].final_risk_score >= threshold)

\* C2 witness: one record exactly at the threshold (flagged) and one just
\* below it (not flagged) in the same output
C2_Witness ==
  /\ Done
  /\ \E i, j \in Rows : /\ df[i].final_risk_score = threshold
                        /\ df[i].final_is_anomalous
                        /\ df[j].final_risk_score = threshold - 1
                        /\ ~df[j].final_is_anomalous

\* the table of section 4.4: active checks 0..6 -> threshold
ThresholdTable == <<1, 1, 2, 3, 3, 4, 5>>

\* C3: the threshold is the table's entry for the number of active checks
\* (6 or more -> 5), whatever the records are.
C3_ThresholdTable ==
  Done => threshold = (IF Len(active_risks) >= 6 THEN 5
                       ELSE ThresholdTable[Len(active_risks) + 1])

\* C3 witness: the boundary of four active checks, threshold 3
C3_Witness == Done /\ Len(active_risks) = 4 /\ threshold = 3

\* C4: a per-account check is active iff its feature is in the feature set,
\* the velocity check iff simulation is on and stamps are present, and the
\* column of an inactive check is false on every record.
C4_ActiveIffFeature ==
  Done =>
    /\ \A c \in DOMAIN RequiredFeature :
         c \in ActiveColumns <=> HasFeature(RequiredFeature[c])
    /\ "risk_velocity_sim" \in ActiveColumns <=> SimulationActive
    /\ \A c \in AllChecks \ ActiveColumns : \A i \in Rows : ~df[i][c]

\* C4 witness: simulation on with stamps and a batch too short for any
\* session (velocity active, its column all false), the device feature absent
C4_Witness ==
  /\ Done
  /\ SimulationActive /\ Len(df) < session_size
  /\ "risk_velocity_sim" \in ActiveColumns
  /\ HasFeature("amount") /\ ~HasFeature("device_hash")
  /\ "risk_new_device" \notin ActiveColumns

\* The input rows are numbered by transaction_id (their place in the batch).
Tids == 1..Len(input)
Utc(a) == ToDatetimeUTC(input[a].timestamp)
SameAccount(a, b) == input[a].sender_account = input[b].sender_account

\* a is processed before b: by account, then instant, then place in the
\* batch when stamps are present, else by place in the batch
Before(a, b) ==
  IF HasFeature("timestamp")
  THEN \/ input[a].sender_account < input[b].sender_account
       \/ /\ SameAccount(a, b)
          /\ \/ Utc(a) < Utc(b)
             \/ Utc(a) = Utc(b) /\ a < b
  ELSE a < b

\* the earlier records of the same account, and the immediately preceding one
Earlier(b) == {a \in Tids : SameAccount(a, b) /\ Before(a, b)}
Predecessor(b) == CHOOSE a \in Earlier(b) : \A c \in Earlier(b) \ {a} : Before(c, a)

\* C5 (as claimed): with location present, the location-change check fires
\* on a record exactly when it has a predecessor in its account and its
\* location differs from the predecessor's; a first record never fires.
C5_LocationChangeNeedsPredecessor ==
  (Done /\ HasFeature("location")) =>
    \A i \in Rows :
      LET b == df[i].transaction_id
      IN  df[i].risk_location_change <=>
            /\ Earlier(b) # {}
            /\ input[b].location # input[Predecessor(b)].location

\* C6: with the device identifier present, the new-device check fires on a
\* record iff no earlier record of its account has the same device value;
\* the new-network check likewise on the network identifier.
C6_NewValueIffFirstOccurrence ==
  Done =>
    \A i \in Rows :
      LET b == df[i].transaction_id
      IN  /\ HasFeature("device_hash") =>
               (df[i].risk_new_device <=>
                  ~\E a \in Earlier(b) : input[a].device_hash = input[b].device_hash)
          /\ HasFeature("ip_address") =>
               (df[i].risk_new_ip <=>
                  ~\E a \in Earlier(b) : input[a].ip_address = input[b].ip_address)

\* C6 witness: two records of one account with the same device, the later one
\* in the batch being the earlier one in time: it fires, the repeat does not
C6_Witness ==
  /\ Done /\ HasFeature("device_hash") /\ HasFeature("timestamp")
  /\ \E i, j \in Rows :
       /\ df[i].sender_account = df[j].sender_account
       /\ df[i].device_hash = df[j].device_hash
       /\ df[i].transaction_id > df[j].transaction_id
       /\ df[i].risk_new_device /\ ~df[j].risk_new_device

\* the amounts of the account of record b: how many, their sum, their sum of
\* squares
GroupTids(b) == {a \in Tids : SameAccount(a, b)}
GroupSum(b) == SumFn([a \in GroupTids(b) |-> input[a].amount], GroupTids(b))
GroupSumSq(b) ==
  SumFn([a \in GroupTids(b) |-> input[a].amount * input[a].amount], GroupTids(b))

\* (x - mean)/std >= 1 with the sample standard deviation, in integers:
\* n*x > S and (n*x - S)^2 * (n - 1) >= n * (n*Q - S^2), where the variance
\* is (n*Q - S^2) / (n * (n - 1))
AtLeastOneStdAbove(b) ==
  LET n == Cardinality(GroupTids(b))
      dev == n * input[b].amount - GroupSum(b)
  IN  /\ n >= 2
      /\ n * GroupSumSq(b) - GroupSum(b) * GroupSum(b) > 0
      /\ dev > 0
      /\ dev * dev * (n - 1) >= n * (n * GroupSumSq(b) - GroupSum(b) * GroupSum(b))

ZeroVariance(b) ==
  \A a \in GroupTids(b) : input[a].amount = input[b].amount

\* C7: with amount present, the amount check fires on a record exactly when
\* its per-account z-score is at least 1; in an account of zero variance the
\* z-score is 0 on every record and the check does not fire.
C7_AmountCheck ==
  (Done /\ HasFeature("amount")) =>
    \A i \in Rows :
      LET b == df[i].transaction_id
      IN  /\ df[i].risk_amount <=> AtLeastOneStdAbove(b)
          /\ ZeroVariance(b) =>
               (df[i].amount_zscore = ZeroScore /\ ~df[i].risk_amount)

\* C7 witness: a record exactly one standard deviation above its account's
\* mean fires (amounts 1, 2, 3), and the only record of another account,
\* whose variance is zero, has z-score 0 and does not
C7_Witness ==
  /\ Done /\ HasFeature("amount")
  /\ \E i, j \in Rows :
       /\ df[i].risk_amount
       /\ df[i].amount_zscore.num * df[i].amount_zscore.num * df[i].amount_zscore.nm1
            = df[i].amount_zscore.ssq
       /\ ZeroVariance(df[j].transaction_id)
       /\ df[j].amount_zscore = ZeroScore
       /\ ~df[j].risk_amount

\* the number of records of b's account at hour h
HourCount(b, h) ==
  Cardinality({a \in GroupTids(b) : HourOf(Utc(a)) = h})

\* C8: with stamps present, the dominant hour of an account is the smallest
\* of its hours with the highest record count, and the off-hour check fires
\* on a record iff its hour differs from it.
C8_DominantHour ==
  (Done /\ HasFeature("timestamp")) =>
    \A i \in Rows :
      LET b == df[i].transaction_id
          dom == df[i].dominant_hour
      IN  /\ HourCount(b, dom) > 0
          /\ \A h \in 0..23 :
               /\ HourCount(b, h) <= HourCount(b, dom)
               /\ HourCount(b, h) = HourCount(b, dom) => dom <= h
          /\ df[i].risk_off_hour <=> (HourOf(Utc(b)) # dom)

\* C8 witness: an account whose hours 9 and 14 tie; 9 is dominant and the
\* record at 14 is flagged, the record at 9 is not
C8_Witness ==
  /\ Done /\ HasFeature("timestamp")
  /\ \E i, j \in Rows :
       /\ df[i].sender_account = df[j].sender_account
       /\ df[i].hour = 9 /\ df[j].hour = 14
       /\ HourCount(df[i].transaction_id, 9) = HourCount(df[i].transaction_id, 14)
       /\ df[i].dominant_hour = 9
       /\ ~df[i].risk_off_hour /\ df[j].risk_off_hour

\* 0-based position of record b in the batch sorted by account and time
SortedPosition(b) == Cardinality({a \in Tids : Before(a, b)})

\* min(100, n div 5)
ExpectedSessions == Min(100, Len(input) \div 5)

\* C9: with simulation on and stamps present, min(100, n div 5) sessions are
\* created, session k holds exactly the records at positions 5k..5k+4 of the
\* sorted batch, and every later record has no session.
C9_SessionsAreSlices ==
  (Done /\ SimulationActive) =>
    /\ \A i \in Rows :
         LET pos == SortedPosition(df[i].transaction_id)
         IN  df[i].session_id =
               (IF pos < 5 * ExpectedSessions THEN pos \div 5 ELSE NA)
    /\ Cardinality({df[i].session_id : i \in Rows} \ {NA}) = ExpectedSessions

\* C9 witness: a batch of 507 records: the cap of 100 sessions is reached, 7
\* records are left without a session, a session holds records of two accounts
C9_Witness ==
  /\ Done /\ SimulationActive
  /\ Len(df) = 507
  /\ Cardinality({df[i].session_id : i \in Rows} \ {NA}) = 100
  /\ Cardinality({i \in Rows : df[i].session_id = NA}) = 7
  /\ \E i, j \in Rows :
       /\ df[i].session_id # NA
       /\ df[i].session_id = df[j].session_id
       /\ df[i].sender_account # df[j].sender_account

\* C10: with simulation on and stamps present, a simulated record's session
\* sequence count is its 1-based place in its slice, so the velocity check
\* fires on exactly the 3rd, 4th and 5th record of every session and on no
\* record without a session.
C10_VelocityOnThirdToFifth ==
  (Done /\ SimulationActive) =>
    \A i \in Rows :
      LET pos == SortedPosition(df[i].transaction_id)
      IN  IF pos < 5 * ExpectedSessions
          THEN /\ df[i].txn_count_sim = (pos % 5) + 1
               /\ df[i].risk_velocity_sim <=> (pos % 5) >= 2
          ELSE ~df[i].risk_velocity_sim

\* C10 witness: a session with its 2nd record not flagged and its 3rd flagged,
\* and three records without a session, none flagged
C10_Witness ==
  /\ Done /\ SimulationActive
  /\ \E i, j \in Rows :
       /\ df[i].session_id = 0 /\ df[i].txn_count_sim = 2 /\ ~df[i].risk_velocity_sim
       /\ df[j].session_id = 0 /\ df[j].txn_count_sim = 3 /\ df[j].risk_velocity_sim
  /\ Cardinality({i \in Rows : df[i].session_id = NA}) >= 3
  /\ \A i \in Rows : df[i].session_id = NA => ~df[i].risk_velocity_sim

\* the order in which the checks are activated
CheckOrder ==
  <<"risk_amount", "risk_new_device", "risk_new_ip", "risk_location_change",
    "risk_off_hour", "risk_velocity_sim">>

\* the active checks that are true on output row i, in activation order
FiredChecks(i) ==
  SelectSeq(CheckOrder, LAMBDA c : c \in ActiveColumns /\ df[i][c])

\* C11: every record's final_reasons is the list of the descriptions of the
\* active checks whose column is true on it, in activation order (amount, new
\* device, new network, location change, off-hour, velocity), with no entry
\* for an inactive or a false check, and as long as the record's score.
C11_ReasonsListFiredChecks ==
  Done => \A i \in Rows :
            /\ df[i].final_reasons =
                 [k \in 1..Len(FiredChecks(i)) |-> Description[FiredChecks(i)[k]]]
            /\ Len(df[i].final_reasons) = df[i].final_risk_score

\* C11 witness: a record with the amount, off-hour and velocity reasons, on
\* which the active new-device check is false, the location check inactive
C11_Witness ==
  /\ Done
  /\ "risk_new_device" \in ActiveColumns
  /\ "risk_location_change" \notin ActiveColumns
  /\ \E i \in Rows :
       /\ ~df[i].risk_new_device
       /\ df[i].final_reasons =
            <<Description.risk_amount, Description.risk_off_hour,
              Description.risk_velocity_sim>>

\* C12: a batch with none of the five optional features has no active check
\* and threshold 1, with simulation on or off, and every record of its output
\* has score 0, is not anomalous and has no reasons.
C12_NoFeatureNothingFlagged ==
  (Done /\ available_features \cap OPTIONAL_FEATURE_COLS = {}) =>
    /\ active_risks = << >>
    /\ threshold = 1
    /\ \A i \in Rows : /\ df[i].final_risk_score = 0
                        /\ ~df[i].final_is_anomalous
                        /\ df[i].final_reasons = << >>

\* C12 witness: simulation requested on a featureless batch long enough for
\* two sessions, two accounts in it
C12_Witness ==
  /\ Done
  /\ available_features = MIN_REQUIRED_COLS
  /\ simulation_mode
  /\ Len(df) >= 2 * session_size
  /\ \E i, j \in Rows : df[i].sender_account # df[j].sender_account
  /\ \A i \in Rows : ~df[i].final_is_anomalous

\* C13 as stated: the velocity check is in the active-risks list only if it
\* fired on at least one record of the batch.
C13_VelocityActiveOnlyIfFired ==
  Done => ("risk_velocity_sim" \in ActiveColumns =>
             \E i \in Rows : df[i].risk_velocity_sim)

\* C13 amended: with simulation on and stamps present the velocity check is
\* registered and counted for the threshold whether or not it fired; a batch
\* of fewer than 5 records has no session, velocity fires on none of its
\* records, and it is still counted as an active check.
C13_VelocityActiveWhenSimulated ==
  (Done /\ SimulationActive) =>
    /\ active_risks[Len(active_risks)] = "risk_velocity_sim"
    /\ Len(active_risks) =
         Cardinality(available_features \cap OPTIONAL_FEATURE_COLS) + 1
    /\ threshold = ThresholdTable[Len(active_risks) + 1]
    /\ Len(df) < 5 => \A i \in Rows : ~df[i].risk_velocity_sim

\* C13 witness: four records with stamps and devices, simulation on: three
\* active checks, threshold 3, and the velocity column false on every record
C13_Witness ==
  /\ Done /\ SimulationActive
  /\ Len(df) = 4
  /\ active_risks = <<"risk_new_device", "risk_off_hour", "risk_velocity_sim">>
  /\ threshold = 3
  /\ \A i \in Rows : ~df[i].risk_velocity_sim /\ ~df[i].final_is_anomalous

\* C16: with simulation on and stamps present, the record at place j (from 0)
\* of a session has as synthetic timestamp the real timestamp of the first
\* record of its slice plus 10*j seconds, so the first keeps its own and the
\* synthetic timestamps of a session strictly increase; a record without a
\* session keeps its real timestamp as its synthetic one.
C16_SyntheticTimestamps ==
  (Done /\ SimulationActive) =>
    /\ \A pos \in {[a \in Tids |-> SortedPosition(a)]} :
       \A first \in {[k \in 0..(ExpectedSessions - 1) |->
                        CHOOSE a \in Tids : pos[a] = 5 * k]} :
         \A i \in Rows : \A b \in {df[i].transaction_id} :
           df[i].sim_timestamp =
             (IF pos[b] < 5 * ExpectedSessions
              THEN Utc(first[pos[b] \div 5]) + 10 * (pos[b] % 5)
              ELSE Utc(b))
    /\ \A i \in Rows : \A j \in (i + 1)..Min(Len(df), i + 4) :
         (df[i].session_id # NA /\ df[i].session_id = df[j].session_id)
           => df[i].sim_timestamp < df[j].sim_timestamp

\* C16 witness: a session whose first two records have the same real instant,
\* the second moved 10 seconds on, and a record without a session that keeps
\* its real timestamp
C16_Witness ==
  /\ Done /\ SimulationActive
  /\ \E i, j \in Rows :
       /\ df[i].session_id = 0 /\ df[i].txn_count_sim = 1
       /\ df[j].session_id = 0 /\ df[j].txn_count_sim = 2
       /\ df[i].timestamp = df[j].timestamp
       /\ df[i].sim_timestamp = df[i].timestamp
       /\ df[j].sim_timestamp = df[i].timestamp + 10
  /\ \E i \in Rows : /\ df[i].session_id = NA
                      /\ df[i].sim_timestamp = df[i].timestamp

\* C17: with amount present, the amount check fires on no record of an
\* account that has fewer than 3 records in the batch.
C17_AmountNeedsThreeRecords ==
  (Done /\ HasFeature("amount")) =>
    \A i \in Rows :
      Cardinality(GroupTids(df[i].transaction_id)) < 3 => ~df[i].risk_amount

\* C17 witness: an account with two records of different amounts, neither
\* flagged, next to an account with three records, one of them flagged
C17_Witness ==
  /\ Done /\ HasFeature("amount")
  /\ \E i, j \in Rows :
       /\ i # j
       /\ df[i].sender_account = df[j].sender_account
       /\ Cardinality(GroupTids(df[i].transaction_id)) = 2
       /\ df[i].amount # df[j].amount
       /\ ~df[i].risk_amount /\ ~df[j].risk_amount
  /\ \E i \in Rows :
       /\ Cardinality(GroupTids(df[i].transaction_id)) = 3
       /\ df[i].risk_amount

\* C18: when the optional features present are a non-empty subset of
\* {device, network}, the threshold is 1 or 2 and the first record of every
\* sender account in batch order is anomalous, so every account has a flagged
\* record.
C18_FirstRecordFlagged ==
  (/\ Done
   /\ available_features \cap OPTIONAL_FEATURE_COLS # {}
   /\ available_features \cap OPTIONAL_FEATURE_COLS
        \subseteq {"device_hash", "ip_address"}) =>
    /\ threshold \in {1, 2}
    /\ \A i \in Rows :
         (\A a \in GroupTids(df[i].transaction_id) : a >= df[i].transaction_id)
           => df[i].final_is_anomalous
    /\ \A acct \in {input[a].sender_account : a \in Tids} :
         \E i \in Rows : df[i].sender_account = acct /\ df[i].final_is_anomalous

\* C18 witness: device and network present, threshold 2, two accounts; the
\* first record of each is flagged, and a later record that repeats the
\* device of its account's first record is not
C18_Witness ==
  /\ Done
  /\ available_features \cap OPTIONAL_FEATURE_COLS = {"device_hash", "ip_address"}
  /\ threshold = 2
  /\ \E i, j, k \in Rows :
       /\ df[i].sender_account # df[k].sender_account
       /\ df[i].sender_account = df[j].sender_account
       /\ df[i].transaction_id < df[j].transaction_id
       /\ df[i].device_hash = df[j].device_hash
       /\ df[i].final_is_anomalous /\ df[k].final_is_anomalous
       /\ ~df[j].final_is_anomalous

\* the input columns of a record
InputColumns ==
  {"transaction_id", "sender_account", "timestamp", "amount", "device_hash",
   "ip_address", "location"}

\* a parsed UTC timestamp t read as a stamp: local time t at offset 0
UtcStamp(t) == [local |-> t, offset |-> 0]

\* the output rows that carry transaction identifier a
RowsOf(a) == {i \in Rows : df[i].transaction_id = a}

OutputKeepsRecords ==
  /\ Len(df) = Len(input)
  /\ \A a \in Tids :
       /\ Cardinality(RowsOf(a)) = 1
       /\ \A i \in RowsOf(a) :
            /\ \A c \in InputColumns \ {"timestamp"} : df[i][c] = input[a][c]
            /\ df[i].timestamp =
                 (IF HasFeature("timestamp") THEN Utc(a) ELSE NA)
            /\ InputColumns \subseteq DOMAIN df[i]
            /\ {"final_risk_score", "final_reasons", "final_is_anomalous"}
                 \subseteq DOMAIN df[i]

Completed == 1..Len(outcomes)
Returned == {j \in Completed : outcomes[j].raised = "nothing"}

\* the batch of call j has rows, both required columns and, if it has a
\* timestamp column, only stamps that parse
Acceptable(j) ==
  /\ calls[j].rows # << >>
  /\ {"transaction_id", "sender_account"} \subseteq calls[j].columns
  /\ "timestamp" \in calls[j].columns =>
       \A i \in 1..Len(calls[j].rows) : calls[j].rows[i].timestamp # Malformed

\* the batch of call j reaches the engine: it has rows and the two columns
ReachesEngine(j) ==
  /\ calls[j].rows # << >>
  /\ {"transaction_id", "sender_account"} \subseteq calls[j].columns

\* where the records of call j start in the collection, if nothing else was
\* ever stored than the batches of the calls that returned
RECURSIVE OffsetOf(_)
OffsetOf(j) ==
  IF j = 1 THEN 0
  ELSE OffsetOf(j - 1)
         + (IF j - 1 \in Returned THEN Len(calls[j - 1].rows) ELSE 0)

Stored(j) ==
  [i \in 1..Len(calls[j].rows) |-> collection[OffsetOf(j) + i]]

\* calls j and k submit the same records with the same columns and flag
SameRecords(j, k) ==
  /\ calls[j].columns = calls[k].columns
  /\ calls[j].simulation_mode = calls[k].simulation_mode
  /\ Len(calls[j].rows) = Len(calls[k].rows)
  /\ {calls[j].rows[i] : i \in 1..Len(calls[j].rows)}
       = {calls[k].rows[i] : i \in 1..Len(calls[k].rows)}

\* the batch of call j has stamps and no two records of one sender account
\* at the same instant
DistinctAccountInstants(j) ==
  /\ "timestamp" \in calls[j].columns
  /\ \A a, b \in 1..Len(calls[j].rows) :
       LET ra == calls[j].rows[a]
           rb == calls[j].rows[b]
       IN  (a # b /\ ra.sender_account = rb.sender_account)
             => ToDatetimeUTC(ra.timestamp) # ToDatetimeUTC(rb.timestamp)

\* the batch of call j has stamps and no two records with the same sender
\* account and the same stamp, as written
DistinctAccountStamps(j) ==
  /\ "timestamp" \in calls[j].columns
  /\ \A a, b \in 1..Len(calls[j].rows) :
       LET ra == calls[j].rows[a]
           rb == calls[j].rows[b]
       IN  (a # b /\ ra.sender_account = rb.sender_account)
             => ra.timestamp # rb.timestamp

\* C19 as stated: when stamps are present and all (sender account, timestamp)
\* pairs of a batch are distinct, the score, the verdict and the reasons of
\* each record, found by its transaction identifier, do not depend on the
\* order of the rows.
C19_DistinctStampsOrderIrrelevant ==
  \A j, k \in Returned :
    (j < k /\ SameRecords(j, k) /\ DistinctAccountStamps(j)) =>
      \A first \in {Stored(j)} : \A second \in {Stored(k)} :
        \A a, b \in 1..Len(first) :
          first[a].transaction_id = second[b].transaction_id =>
            /\ first[a].final_risk_score = second[b].final_risk_score
            /\ first[a].final_is_anomalous = second[b].final_is_anomalous
            /\ first[a].final_reasons = second[b].final_reasons

\* C19 amended: when stamps are present and no two records of one sender
\* account are stamped with the same instant (stamps compared after parsing
\* to UTC, so 09:00+00:00 and 10:00+01:00 are the same), the score, the
\* verdict and the reasons of each record, found by its transaction
\* identifier, are the same in whatever order the batch is submitted, with
\* simulation on or off.
C19_OrderOfRowsIrrelevant ==
  \A j, k \in Returned :
    (j < k /\ SameRecords(j, k) /\ DistinctAccountInstants(j)) =>
      \A first \in {Stored(j)} : \A second \in {Stored(k)} :
        \A a, b \in 1..Len(first) :
          first[a].transaction_id = second[b].transaction_id =>
            /\ first[a].final_risk_score = second[b].final_risk_score
            /\ first[a].final_is_anomalous = second[b].final_is_anomalous
            /\ first[a].final_reasons = second[b].final_reasons

\* C19 witness: a batch of two sessions and more stored in two different
\* orders, all five features present and simulation on; some record is
\* anomalous with the velocity reason, some record is not anomalous
C19_Witness ==
  /\ Len(outcomes) = 2 /\ Returned = {1, 2}
  /\ SameRecords(1, 2) /\ DistinctAccountInstants(1)
  /\ calls[1].rows # calls[2].rows
  /\ calls[1].simulation_mode
  /\ OPTIONAL_FEATURE_COLS \subseteq calls[1].columns
  /\ Len(calls[1].rows) >= 2 * session_size
  /\ \E a, b \in 1..Len(calls[1].rows) :
       /\ Stored(2)[a].final_is_anomalous
       /\ Stored(2)[a].risk_velocity_sim
       /\ ~Stored(2)[b].final_is_anomalous

====
